---- MODULE Spec2Model ----
(***************************************************************************)
(* Model of the scene timeline sequencer of src/video_editor.py            *)
(* (class StorySequencer: __init__, add_scene, render).                    *)
(*                                                                         *)
(* Times and durations are whole ticks (one tick is any fixed fraction of  *)
(* a second); the arithmetic of add_scene uses only +, -, max, comparison  *)
(* and ceil of a quotient, all of which are modelled exactly on ticks.     *)
(* A clip (moviepy object) is modelled by its timing: kind, start and      *)
(* duration.  The file system is an input: each call is given a video and  *)
(* an audio argument that says whether the path exists and, if so, the     *)
(* duration of the file.                                                   *)
(*                                                                         *)
(* The helpers of src/video_editor.py (resize_and_crop, create_text_clip,  *)
(* create_gradient_bar) are operators, each with a specification that      *)
(* draws a call's arguments and applies it.  The alpha ramp of             *)
(* create_gradient_bar is computed in float64, rounding to nearest, ties   *)
(* to even, because its truncation to 8 bits depends on the last bit.      *)
(* The scenes loops of src/video_assembly.py are the pipeline, and two     *)
(* add_scene calls made from two threads are stepped line by line.         *)
(***************************************************************************)
EXTENDS Integers, Sequences, FiniteSets

VARIABLES
    current_time,   \* StorySequencer.current_time
    clips,          \* StorySequencer.clips, the layer list
    output_file,    \* the file at render's output_path
    last,           \* the last operation called: its arguments, and the
                    \* cursor and the number of layers it found
    calls,          \* add_scene calls in flight on other threads: each
                    \* call's position and local variables
    pipeline        \* a run of run_content_generation and run_editor: its
                    \* config, its position and the scene it has reached

vars == <<current_time, clips, output_file, last>>

allvars == <<current_time, clips, output_file, last, calls, pipeline>>

(* ------------------------------ bounds -------------------------------- *)

MaxClips == 6        \* clips holds at most MaxClips layers
MaxEffects == 2      \* effects_duration ranges over 0..MaxEffects
MaxVideoDur == 2     \* a video file lasts 1..MaxVideoDur
MaxAudioDur == 3     \* an audio file lasts 1..MaxAudioDur

(* ------------------------------ inputs -------------------------------- *)

\* video_path: a path that does not exist, or a file of some duration
MissingVideo == [exists |-> FALSE, duration |-> 0]
ExistingVideos == {[exists |-> TRUE, duration |-> v] : v \in 1..MaxVideoDur}

\* audio_path: None, a path that does not exist, or a file of some duration
NoAudio == [given |-> FALSE, exists |-> FALSE, duration |-> 0]
MissingAudio == [given |-> TRUE, exists |-> FALSE, duration |-> 0]
ExistingAudios ==
    {[given |-> TRUE, exists |-> TRUE, duration |-> a] : a \in 1..MaxAudioDur}
AudioInputs == {NoAudio, MissingAudio} \cup ExistingAudios

\* title and caption: empty or not (None and "" are both falsy)
Texts == {"", "T"}

TextDirections == {"left", "right", "top", "bottom"}

EffectsDurations == 0..MaxEffects

(* ------------------------------ helpers ------------------------------- *)

Max(a, b) == IF a >= b THEN a ELSE b

\* math.ceil(a / v) for a >= 0, v > 0
Ceil(a, v) == (a + v - 1) \div v

Layer(kind, start, duration) ==
    [kind |-> kind, start |-> start, duration |-> duration]

LayerEnd(l) == l.start + l.duration

IsFreeze(l) == l.kind = "freeze"
IsVideo(l) == l.kind = "video"

(* ------------------------- StorySequencer ----------------------------- *)

\* __init__
Init ==
    /\ current_time = 0
    /\ clips = <<>>
    /\ output_file = [exists |-> FALSE, duration |-> 0]
    /\ last = [op |-> "init"]

\* add_scene: overlap and start time
is_first_scene(ct) == ct = 0

overlap_time_double(ct, slide_duration) ==
    IF ~is_first_scene(ct) THEN 2 * slide_duration ELSE 0

overlap_time(ct, slide_duration) ==
    IF ~is_first_scene(ct) THEN slide_duration ELSE 0

scene_start_time_unclamped(ct, slide_duration) ==
    ct - overlap_time(ct, slide_duration)

scene_start_time(ct, slide_duration) ==
    Max(0, ct - overlap_time(ct, slide_duration))

intro_bg_early(ct, effects_duration) ==
    Layer("freeze", ct - effects_duration, effects_duration)

\* add_scene: the freeze-frame of the fitted video's first frame
intro_bg(ct, effects_duration) ==
    Layer("freeze", scene_start_time(ct, effects_duration), effects_duration)

video_start_time(ct, effects_duration) ==
    scene_start_time(ct, effects_duration) + effects_duration

\* clip.with_duration(t)
with_duration(d, t) == t

\* concatenate_videoclips([video_clip] * loops)
concatenate_videoclips(d, loops) == d * loops

looped_duration_untrimmed(video, audio) ==
    LET loops == Ceil(audio.duration, video.duration)
    IN  concatenate_videoclips(video.duration, loops)

\* add_scene: the video looped to cover the audio, then trimmed to it
looped_duration(video, audio) ==
    LET loops == Ceil(audio.duration, video.duration)
    IN  with_duration(concatenate_videoclips(video.duration, loops),
                      audio.duration)

video_clip_duration_trim(video, audio) ==
    IF audio.given /\ audio.exists
    THEN with_duration(video.duration, audio.duration)
    ELSE video.duration

\* add_scene: duration of video_clip after the audio handling
video_clip_duration(video, audio) ==
    IF audio.given /\ audio.exists
    THEN IF audio.duration > video.duration
         THEN looped_duration(video, audio)
         ELSE video.duration
    ELSE video.duration

video_sound_only_looped(video, audio) ==
    IF audio.given /\ audio.exists /\ audio.duration > video.duration
    THEN "audio" ELSE "embedded"

\* add_scene: the sound track of video_clip after the audio handling;
\* with_audio is applied whenever the audio file was given and exists
video_sound(video, audio) ==
    IF audio.given /\ audio.exists
    THEN "audio"
    ELSE "embedded"

video_layer(ct, effects_duration, video, audio) ==
    Layer("video", video_start_time(ct, effects_duration),
          video_clip_duration(video, audio))

\* the texts a scene can carry: besides Texts, one the rasterizer turns
\* into a block of zero width or height, and one it raises on
ZeroSizeText == "Z"
UnrenderableText == "X"
AllTexts == Texts \cup {ZeroSizeText, UnrenderableText}

\* TextClip(text=...): raises, or yields a block with or without extent
TextClip(text) ==
    CASE text = UnrenderableText -> [raised |-> TRUE, w |-> 0, h |-> 0]
      [] text = ZeroSizeText -> [raised |-> FALSE, w |-> 0, h |-> 1]
      [] OTHER -> [raised |-> FALSE, w |-> 1, h |-> 1]

create_text_clip_uncaught(text) ==
    IF text = "" THEN [raised |-> FALSE, clip |-> FALSE]
    ELSE LET clip == TextClip(text)
         IN  IF clip.raised THEN [raised |-> TRUE, clip |-> FALSE]
             ELSE IF clip.w = 0 \/ clip.h = 0
                  THEN [raised |-> FALSE, clip |-> FALSE]
                  ELSE [raised |-> FALSE, clip |-> TRUE]

\* create_text_clip(text, ...): clip is FALSE for None; raised says
\* whether an exception leaves the function
create_text_clip(text) ==
    IF text = "" THEN [raised |-> FALSE, clip |-> FALSE]
    ELSE LET clip == TextClip(text)
         IN  IF clip.raised THEN [raised |-> FALSE, clip |-> FALSE]
             ELSE IF clip.w = 0 \/ clip.h = 0
                  THEN [raised |-> FALSE, clip |-> FALSE]
                  ELSE [raised |-> FALSE, clip |-> TRUE]

\* create_sidebar_clip(width, height, direction, title, caption): the
\* layers of the composite, the gradient bar first
create_sidebar_clip(direction, title, caption) ==
    LET t_clip == IF title /= "" THEN create_text_clip(title)
                  ELSE [raised |-> FALSE, clip |-> FALSE]
        c_clip == IF caption /= "" THEN create_text_clip(caption)
                  ELSE [raised |-> FALSE, clip |-> FALSE]
    IN  [raised |-> t_clip.raised \/ c_clip.raised,
         layers |-> <<"bg">>
                    \o (IF t_clip.clip THEN <<"title">> ELSE <<>>)
                    \o (IF c_clip.clip THEN <<"caption">> ELSE <<>>)]

has_sidebar_both(title, caption) == title /= "" /\ caption /= ""

sidebar_layers_by_text(ct, effects_duration, video, audio, title, caption) ==
    IF title /= "" \/ caption /= ""
    THEN <<Layer("sidebar", video_start_time(ct, effects_duration),
                 IF caption = "" THEN video.duration
                 ELSE video_clip_duration(video, audio))>>
    ELSE <<>>

sidebar_layers_native(ct, effects_duration, video, audio, title, caption) ==
    IF title /= "" \/ caption /= ""
    THEN <<Layer("sidebar", scene_start_time(ct, effects_duration),
                 video.duration)>>
    ELSE <<>>

\* add_scene: the side-bar overlay, only if there is a title or a caption
has_sidebar(title, caption) == title /= "" \/ caption /= ""

sidebar_layers(ct, effects_duration, video, audio, title, caption) ==
    IF has_sidebar(title, caption)
    THEN <<Layer("sidebar", video_start_time(ct, effects_duration),
                 video_clip_duration(video, audio))>>
    ELSE <<>>

new_current_time_native(ct, effects_duration, video, audio) ==
    video_start_time(ct, effects_duration) + video.duration

new_current_time_no_video(ct, effects_duration, video, audio) ==
    video_start_time(ct, effects_duration)

\* add_scene: the cursor after the scene
new_current_time(ct, effects_duration, video, audio) ==
    video_start_time(ct, effects_duration) + video_clip_duration(video, audio)

\* add_scene: the video file is missing, the scene is skipped
skip_scene_appends ==
    /\ clips' = clips \o <<Layer("freeze", current_time, 0)>>
    /\ UNCHANGED <<current_time, output_file>>

skip_scene ==
    UNCHANGED <<current_time, clips, output_file>>

\* add_scene(video_path, title, caption, effects_duration, text_direction,
\*           audio_path)
add_scene(video, title, caption, effects_duration, text_direction, audio) ==
    IF ~video.exists
    THEN /\ skip_scene
         /\ last' = [op |-> "add_scene", video |-> video,
                     time_before |-> current_time,
                     clips_before |-> Len(clips)]
    ELSE LET sidebar == IF has_sidebar(title, caption)
                        THEN create_sidebar_clip(text_direction, title, caption)
                        ELSE [raised |-> FALSE, layers |-> <<>>]
         IN  /\ IF sidebar.raised
                THEN \* the exception leaves add_scene after two appends
                     /\ clips' = clips
                            \o <<intro_bg(current_time, effects_duration)>>
                            \o <<video_layer(current_time, effects_duration,
                                             video, audio)>>
                     /\ UNCHANGED current_time
                ELSE /\ clips' = clips
                            \o <<intro_bg(current_time, effects_duration)>>
                            \o <<video_layer(current_time, effects_duration,
                                             video, audio)>>
                            \o sidebar_layers(current_time, effects_duration,
                                              video, audio, title, caption)
                     /\ current_time' =
                            new_current_time(current_time, effects_duration,
                                             video, audio)
             /\ last' = [op |-> "add_scene", video |-> video,
                         time_before |-> current_time,
                         clips_before |-> Len(clips),
                         effects_duration |-> effects_duration,
                         audio |-> audio,
                         sound |-> video_sound(video, audio),
                         title |-> title, caption |-> caption,
                         sidebar |-> sidebar.layers]
             /\ UNCHANGED output_file

\* CompositeVideoClip(layers).duration: the latest end of its layers
composite_duration(bg_duration, layers) ==
    LET ends == {bg_duration} \cup {LayerEnd(layers[i]) : i \in 1..Len(layers)}
    IN  CHOOSE m \in ends : \A x \in ends : x <= m

\* render: the file written from the layer list
rendered_file(ct, layers) ==
    [exists |-> TRUE, duration |-> composite_duration(ct, layers)]

render_clears ==
    IF clips = <<>>
    THEN /\ last' = [op |-> "render", clips_before |-> Len(clips)]
         /\ UNCHANGED <<current_time, clips, output_file>>
    ELSE /\ output_file' = [exists |-> TRUE, duration |-> current_time]
         /\ last' = [op |-> "render", clips_before |-> Len(clips)]
         /\ clips' = <<>>
         /\ UNCHANGED current_time

render_rewinds ==
    IF clips = <<>>
    THEN /\ last' = [op |-> "render", clips_before |-> Len(clips)]
         /\ UNCHANGED <<current_time, clips, output_file>>
    ELSE /\ output_file' = [exists |-> TRUE, duration |-> current_time]
         /\ last' = [op |-> "render", clips_before |-> Len(clips)]
         /\ current_time' = 0
         /\ UNCHANGED clips

render_always ==
    /\ output_file' = rendered_file(current_time, clips)
    /\ last' = [op |-> "render", clips_before |-> Len(clips)]
    /\ UNCHANGED <<current_time, clips>>

\* render(output_path, fps)
render ==
    IF clips = <<>>
    THEN /\ last' = [op |-> "render", clips_before |-> Len(clips)]
         /\ UNCHANGED <<current_time, clips, output_file>>
    ELSE /\ output_file' = rendered_file(current_time, clips)
         /\ last' = [op |-> "render", clips_before |-> Len(clips)]
         /\ UNCHANGED <<current_time, clips>>

(* ------------------------------ actions ------------------------------- *)

\* a scene appends at most three layers
AddScene ==
    /\ Len(clips) + 3 <= MaxClips
    /\ \E video \in ExistingVideos, title \in Texts, caption \in Texts,
          effects_duration \in EffectsDurations,
          text_direction \in TextDirections, audio \in AudioInputs :
          add_scene(video, title, caption, effects_duration, text_direction,
                    audio)
    /\ UNCHANGED <<calls, pipeline>>

AddSceneMissing ==
    /\ \E title \in Texts :
           add_scene(MissingVideo, title, "", 0, "left", NoAudio)
    /\ UNCHANGED <<calls, pipeline>>

Render == render /\ UNCHANGED <<calls, pipeline>>

Next == AddScene \/ AddSceneMissing \/ Render

\* one sequencer, called from one thread, outside any pipeline run
NoCalls == <<>>
NoPipeline == [stage |-> "none"]

\* a sequencer just constructed, no call in flight and no pipeline run
InitSequencer == Init /\ calls = NoCalls /\ pipeline = NoPipeline

Spec == InitSequencer /\ [][Next]_allvars

(* ---------------------- scenes with failing texts -------------------- *)

\* add_scene with texts the rasterizer fails on
AddSceneText ==
    /\ Len(clips) + 3 <= MaxClips
    /\ \E video \in ExistingVideos, title \in AllTexts, caption \in AllTexts,
          effects_duration \in EffectsDurations,
          text_direction \in TextDirections :
          add_scene(video, title, caption, effects_duration, text_direction,
                    NoAudio)
    /\ UNCHANGED <<calls, pipeline>>

NextText == AddSceneText \/ Render

SpecText == InitSequencer /\ [][NextText]_allvars

(* ------------- add_scene calls interleaved on one instance ------------ *)

\* a call of add_scene(video, "", "", effects_duration) about to run line
\* 295; its locals are not yet assigned
NewCall(video, effects_duration) ==
    [pc |-> "295", video |-> video, effects_duration |-> effects_duration,
     is_first_scene |-> FALSE, scene_start_time |-> 0,
     cursor_read |-> 0, stale |-> FALSE]

\* line 295: is_first_scene = (self.current_time == 0.0)
call_is_first_scene(c, ct) ==
    [c EXCEPT !.is_first_scene = is_first_scene(ct), !.pc = "297"]

\* lines 296-297: overlap_time from the flag, scene_start_time from a
\* second read of self.current_time (kept in cursor_read)
call_scene_start_time(c, ct) ==
    [c EXCEPT !.scene_start_time =
                  Max(0, ct - (IF ~c.is_first_scene
                               THEN c.effects_duration ELSE 0)),
              !.cursor_read = ct,
              !.pc = "313"]

\* line 313: the freeze-frame appended
call_intro_bg(c) ==
    Layer("freeze", c.scene_start_time, c.effects_duration)

\* lines 316-338: the video appended
call_video_clip(c) ==
    Layer("video", c.scene_start_time + c.effects_duration, c.video.duration)

call_current_time_reread(c, ct) ==
    Max(0, ct - (IF ~c.is_first_scene THEN c.effects_duration ELSE 0))
        + c.effects_duration + c.video.duration

\* line 398: the cursor written, from the call's own video_start_time
call_current_time(c, ct) ==
    c.scene_start_time + c.effects_duration + c.video.duration

\* a call that has read the cursor and not yet written it
InWindow(c) == c.pc \in {"297", "313", "338", "398"}

\* a first scene added with no other call in flight
AddSceneAlone ==
    /\ calls = NoCalls
    /\ clips = <<>>
    /\ \E video \in ExistingVideos, effects_duration \in EffectsDurations :
           add_scene(video, "", "", effects_duration, "left", NoAudio)
    /\ UNCHANGED <<calls, pipeline>>

\* two threads each call add_scene on the instance
StartCalls ==
    /\ calls = NoCalls
    /\ Len(clips) + 4 <= MaxClips
    /\ \E v1 \in ExistingVideos, v2 \in ExistingVideos,
          e1 \in EffectsDurations, e2 \in EffectsDurations :
           calls' = <<NewCall(v1, e1), NewCall(v2, e2)>>
    /\ last' = [op |-> "threads", time_before |-> current_time,
                clips_before |-> Len(clips)]
    /\ UNCHANGED <<current_time, clips, output_file, pipeline>>

\* one call runs up to its next access of the instance
CallStep(i) ==
    /\ i \in DOMAIN calls
    /\ LET c == calls[i]
       IN  CASE c.pc = "295" ->
                  /\ calls' = [calls EXCEPT ![i] =
                                   call_is_first_scene(c, current_time)]
                  /\ UNCHANGED <<current_time, clips>>
             [] c.pc = "297" ->
                  /\ calls' = [calls EXCEPT ![i] =
                                   call_scene_start_time(c, current_time)]
                  /\ UNCHANGED <<current_time, clips>>
             [] c.pc = "313" ->
                  /\ clips' = Append(clips, call_intro_bg(c))
                  /\ calls' = [calls EXCEPT ![i].pc = "338"]
                  /\ UNCHANGED current_time
             [] c.pc = "338" ->
                  /\ clips' = Append(clips, call_video_clip(c))
                  /\ calls' = [calls EXCEPT ![i].pc = "398"]
                  /\ UNCHANGED current_time
             [] c.pc = "398" ->
                  /\ current_time' = call_current_time(c, current_time)
                  /\ calls' = [k \in DOMAIN calls |->
                                  IF k = i THEN [c EXCEPT !.pc = "done"]
                                  ELSE [calls[k] EXCEPT !.stale =
                                            @ \/ InWindow(calls[k])]]
                  /\ UNCHANGED clips
             [] OTHER -> FALSE
    /\ UNCHANGED <<output_file, last, pipeline>>

FirstCallStep == CallStep(1)
SecondCallStep == CallStep(2)

NextThreads == AddSceneAlone \/ StartCalls \/ FirstCallStep \/ SecondCallStep

SpecThreads == InitSequencer /\ [][NextThreads]_allvars

(* --------------------------- resize_and_crop -------------------------- *)

\* the largest width or height of a clip or a target
MaxSide == 4

Min(a, b) == IF a <= b THEN a ELSE b

\* int(a / 2): truncation toward zero
HalfInt(a) == IF a >= 0 THEN a \div 2 ELSE -((-a) \div 2)

\* the length of frame[lo:hi] along an axis of n pixels
SliceLen(lo, hi, n) ==
    LET from == IF lo < 0 THEN Max(0, n + lo) ELSE Min(lo, n)
        to == IF hi < 0 THEN Max(0, n + hi) ELSE Min(hi, n)
    IN  Max(0, to - from)

fills_by_height_reversed(w, h, target_w, target_h) ==
    w * target_h < target_w * h

\* current_ratio > target_ratio, for positive h and target_h
fills_by_height(w, h, target_w, target_h) ==
    w * target_h > target_w * h

\* clip.resized(height=...): new_size = [w * height / h, height], made
\* integers by int()
resized_height(w, h, height) == [w |-> (w * height) \div h, h |-> height]

\* clip.resized(width=...): new_size = [width, h * width / w]
resized_width(w, h, width) == [w |-> width, h |-> (h * width) \div w]

\* clip.cropped(width, height, x_center, y_center): the frame sliced
\* from int(center - size / 2) to int(center + size / 2) on each axis,
\* with the centers at w / 2 and h / 2
cropped(new_clip, width, height) ==
    [w |-> SliceLen(HalfInt(new_clip.w - width), HalfInt(new_clip.w + width),
                    new_clip.w),
     h |-> SliceLen(HalfInt(new_clip.h - height), HalfInt(new_clip.h + height),
                    new_clip.h)]

\* resize_and_crop(clip, target_w, target_h): the resized clip and the
\* clip returned
resize_and_crop(w, h, target_w, target_h) ==
    IF h = 0 \/ target_h = 0
    THEN [new_clip |-> [w |-> w, h |-> h], result |-> [w |-> w, h |-> h]]
    ELSE LET new_clip == IF fills_by_height(w, h, target_w, target_h)
                         THEN resized_height(w, h, target_h)
                         ELSE resized_width(w, h, target_w)
         IN  [new_clip |-> new_clip,
              result |-> cropped(new_clip, target_w, target_h)]

\* a call resize_and_crop(clip, target_w, target_h) with a clip of any
\* size and any target
InitCrop ==
    /\ current_time = 0 /\ clips = <<>>
    /\ output_file = [exists |-> FALSE, duration |-> 0]
    /\ calls = NoCalls /\ pipeline = NoPipeline
    /\ \E w \in 1..MaxSide, h \in 1..MaxSide,
          target_w \in 1..MaxSide, target_h \in 0..MaxSide :
           last = [op |-> "call resize_and_crop", w |-> w, h |-> h,
                   target_w |-> target_w, target_h |-> target_h]

ResizeAndCrop ==
    /\ last.op = "call resize_and_crop"
    /\ last' = [op |-> "resize_and_crop", w |-> last.w, h |-> last.h,
                target_w |-> last.target_w, target_h |-> last.target_h,
                fitted |-> resize_and_crop(last.w, last.h, last.target_w,
                                           last.target_h)]
    /\ UNCHANGED <<current_time, clips, output_file, calls, pipeline>>

SpecCrop == InitCrop /\ [][ResizeAndCrop]_allvars

(* ------------------ create_text_clip: the wrapped text ----------------- *)

\* the longest text, the widest text box and the largest font size
MaxTextLen == 4
MaxWidthPx == 3
MaxFontSize == 3

\* the width assumed when size[0] is not given
DefaultWidthPx == 1000

\* the characters of a text: a letter and a blank
Chars == {"x", " "}
Strings == UNION {[1..n -> Chars] : n \in 0..MaxTextLen}

\* chunk.strip() == ''
IsBlank(chunk) == \A k \in DOMAIN chunk : chunk[k] = " "

max_chars_per_line_full_width(size_w, fontsize) ==
    LET safe_width_px == IF size_w /= 0 THEN size_w ELSE DefaultWidthPx
    IN  Max(1, safe_width_px \div fontsize)

\* safe_width_px, avg_char_width = fontsize * 0.5 and
\* max(1, int(safe_width_px / avg_char_width))
max_chars_per_line(size_w, fontsize) ==
    LET safe_width_px == IF size_w /= 0 THEN size_w ELSE DefaultWidthPx
    IN  Max(1, (2 * safe_width_px) \div fontsize)

\* the length of the run of blanks or of letters that starts the text
RECURSIVE RunLen(_)
RunLen(text) ==
    IF Len(text) <= 1 THEN Len(text)
    ELSE IF (text[1] = " ") = (text[2] = " ") THEN 1 + RunLen(Tail(text))
    ELSE 1

\* TextWrapper._split: the text cut into words and runs of blanks
RECURSIVE SplitChunks(_)
SplitChunks(text) ==
    IF text = <<>> THEN <<>>
    ELSE <<SubSeq(text, 1, RunLen(text))>>
             \o SplitChunks(SubSeq(text, RunLen(text) + 1, Len(text)))

\* TextWrapper._wrap_chunks, inner loop: chunks taken while they fit
RECURSIVE TakeFitting(_, _, _, _)
TakeFitting(chunks, cur_line, cur_len, width) ==
    IF chunks /= <<>> /\ cur_len + Len(Head(chunks)) <= width
    THEN TakeFitting(Tail(chunks), Append(cur_line, Head(chunks)),
                     cur_len + Len(Head(chunks)), width)
    ELSE [chunks |-> chunks, cur_line |-> cur_line, cur_len |-> cur_len]

\* TextWrapper._handle_long_word with break_long_words: the head of a
\* chunk longer than a line fills what is left of the line
HandleLongWord(st, width) ==
    IF st.chunks /= <<>> /\ Len(Head(st.chunks)) > width
    THEN LET space_left == IF width < 1 THEN 1 ELSE width - st.cur_len
             chunk == Head(st.chunks)
         IN  [chunks |-> <<SubSeq(chunk, space_left + 1, Len(chunk))>>
                            \o Tail(st.chunks),
              cur_line |-> Append(st.cur_line, SubSeq(chunk, 1, space_left))]
    ELSE [chunks |-> st.chunks, cur_line |-> st.cur_line]

\* ''.join(cur_line)
RECURSIVE Concat(_)
Concat(parts) ==
    IF parts = <<>> THEN <<>> ELSE Head(parts) \o Concat(Tail(parts))

\* TextWrapper._wrap_chunks, outer loop: one line per pass, a blank chunk
\* dropped at the start of every line but the first and at the end of
\* every line
RECURSIVE WrapChunks(_, _, _)
WrapChunks(chunks, lines, width) ==
    IF chunks = <<>> THEN lines
    ELSE LET rest == IF IsBlank(Head(chunks)) /\ lines /= <<>>
                     THEN Tail(chunks) ELSE chunks
             st == HandleLongWord(TakeFitting(rest, <<>>, 0, width), width)
             cur_line == IF st.cur_line /= <<>>
                            /\ IsBlank(st.cur_line[Len(st.cur_line)])
                         THEN SubSeq(st.cur_line, 1, Len(st.cur_line) - 1)
                         ELSE st.cur_line
         IN  WrapChunks(st.chunks,
                        IF cur_line /= <<>>
                        THEN Append(lines, Concat(cur_line)) ELSE lines,
                        width)

\* "\n".join(lines)
RECURSIVE JoinLines(_)
JoinLines(lines) ==
    IF lines = <<>> THEN <<>>
    ELSE IF Len(lines) = 1 THEN Head(lines)
    ELSE Head(lines) \o <<"\n">> \o JoinLines(Tail(lines))

\* textwrap.fill(text, width)
fill(text, width) == JoinLines(WrapChunks(SplitChunks(text), <<>>, width))

\* create_text_clip: the text handed to TextClip
final_text(text, size_w, fontsize) ==
    (IF Len(text) > max_chars_per_line(size_w, fontsize)
     THEN fill(text, max_chars_per_line(size_w, fontsize))
     ELSE text) \o <<"\n">>

\* a call create_text_clip(text, font, fontsize, color, size) with a
\* text that is not empty
InitWrap ==
    /\ current_time = 0 /\ clips = <<>>
    /\ output_file = [exists |-> FALSE, duration |-> 0]
    /\ calls = NoCalls /\ pipeline = NoPipeline
    /\ \E text \in Strings \ {<<>>}, size_w \in 0..MaxWidthPx,
          fontsize \in 1..MaxFontSize :
           last = [op |-> "call create_text_clip", text |-> text,
                   size_w |-> size_w, fontsize |-> fontsize]

\* create_text_clip up to the text it hands to TextClip
WrapText ==
    /\ last.op = "call create_text_clip"
    /\ last' = [op |-> "create_text_clip", text |-> last.text,
                size_w |-> last.size_w, fontsize |-> last.fontsize,
                final_text |-> final_text(last.text, last.size_w,
                                          last.fontsize)]
    /\ UNCHANGED <<current_time, clips, output_file, calls, pipeline>>

SpecWrap == InitWrap /\ [][WrapText]_allvars

(* ------------------------- create_gradient_bar ------------------------ *)

\* the widths and heights of a bar, from one below the least that is
\* not degenerate, and max_opacity in steps of 2^-OpBits
MinBar == -1
MaxBar == 6
OpBits == 2

\* the significand of a float64, in bits
Float64Bits == 53

\* the bits of precision kept of a quotient before it is rounded
QuotientBits == 64

\* a natural number is the sequence of its digits in base 2^LimbBits,
\* the lowest first; a float64 is [m, e], the number m * 2^e
LimbBits == 15
Base == 2 ^ LimbBits

Limb(n, t) == IF t \in DOMAIN n THEN n[t] ELSE 0

\* bit j of n, the lowest being bit 1
Bit(n, j) ==
    (Limb(n, (j - 1) \div LimbBits + 1) \div 2 ^ ((j - 1) % LimbBits)) % 2

\* the position of the highest bit set, 0 for zero
BitLen(n) ==
    LET set == {j \in 1..(LimbBits * Len(n)) : Bit(n, j) = 1}
    IN  IF set = {} THEN 0 ELSE CHOOSE j \in set : \A k \in set : k <= j

\* floor(n / 2^shift)
ShiftRight(n, shift) ==
    LET d == shift \div LimbBits
        r == shift % LimbBits
    IN  [t \in 1..Len(n) |->
            Limb(n, t + d) \div 2 ^ r
                + (Limb(n, t + d + 1) % 2 ^ r) * 2 ^ (LimbBits - r)]

RECURSIVE LimbsToInt(_)
LimbsToInt(n) ==
    IF n = <<>> THEN 0 ELSE Head(n) + Base * LimbsToInt(Tail(n))

\* n * k + carry
RECURSIVE MulSmall(_, _, _)
MulSmall(n, k, carry) ==
    IF n = <<>>
    THEN IF carry = 0 THEN <<>> ELSE <<carry>>
    ELSE <<(Head(n) * k + carry) % Base>>
             \o MulSmall(Tail(n), k, (Head(n) * k + carry) \div Base)

\* 2^j as a number of the given count of digits
Pow2(j, digits) ==
    [t \in 1..digits |-> IF t = j \div LimbBits + 1 THEN 2 ^ (j % LimbBits)
                         ELSE 0]

\* a - b - borrow, for a >= b + borrow
RECURSIVE Minus(_, _, _)
Minus(a, b, borrow) ==
    IF a = <<>> THEN <<>>
    ELSE LET t == Head(a) - (IF b = <<>> THEN 0 ELSE Head(b)) - borrow
         IN  <<t % Base>>
                 \o Minus(Tail(a), IF b = <<>> THEN <<>> ELSE Tail(b),
                          IF t < 0 THEN 1 ELSE 0)

\* floor(n / d) and whether the division leaves a remainder, by long
\* division from the highest digit t
RECURSIVE DivSmall(_, _, _, _, _)
DivSmall(n, t, rem, d, quotient) ==
    IF t = 0 THEN [m |-> quotient, inexact |-> rem /= 0]
    ELSE DivSmall(n, t - 1, (rem * Base + n[t]) % d, d,
                  <<(rem * Base + n[t]) \div d>> \o quotient)

\* rounding to the nearest float64, ties to the even significand; sticky
\* says that the exact number has digits below those given
Round(n, sticky, e) ==
    LET shift == BitLen(n) - Float64Bits
    IN  IF shift <= 0 THEN [m |-> n, e |-> e]
        ELSE LET kept == ShiftRight(n, shift)
                 below == sticky \/ \E j \in 1..(shift - 1) : Bit(n, j) = 1
                 up == Bit(n, shift) = 1 /\ (below \/ Bit(n, shift + 1) = 1)
             IN  [m |-> IF up THEN MulSmall(kept, 1, 1) ELSE kept,
                  e |-> e + shift]

\* int(v) for a float64 v that is not negative
Truncate(v) ==
    IF v.e >= 0 THEN LimbsToInt(v.m) * 2 ^ v.e
    ELSE LimbsToInt(ShiftRight(v.m, 0 - v.e))

\* a * k in float64, k a small integer
Times(a, k) == Round(MulSmall(a.m, k, 0), FALSE, a.e)

\* a * max_opacity in float64, max_opacity = op * 2^-OpBits
TimesOpacity(a, op) == Round(MulSmall(a.m, op, 0), FALSE, a.e - OpBits)

\* 1 - a in float64, for 0 <= a <= 1
OneMinus(a) ==
    IF BitLen(a.m) = 0 THEN [m |-> <<1>>, e |-> 0]
    ELSE Round(Minus(Pow2(0 - a.e, Len(a.m) + 1), a.m, 0), FALSE, a.e)

\* 1 / d in float64
Reciprocal(d) ==
    LET one == Pow2(QuotientBits, QuotientBits \div LimbBits + 1)
        q == DivSmall(one, Len(one), 0, d, <<>>)
    IN  Round(q.m, q.inexact, 0 - QuotientBits)

\* np.linspace(0, 1, n): arange(n) * step with step = 1 / (n - 1), the
\* last point set to 1
linspace(n) ==
    [i \in 1..n |->
        IF i = 1 THEN [m |-> <<>>, e |-> 0]
        ELSE IF i = n THEN [m |-> <<1>>, e |-> 0]
        ELSE Times(Reciprocal(n - 1), i - 1)]

\* linspace for every length of a bar, computed once
LinspaceTable == [n \in 1..MaxBar |-> linspace(n)]

\* .astype(np.uint8) of a float64 that is not negative
astype_uint8(v) == Truncate(v) % 256

\* x * 255 * max_opacity (rising) or (1 - x) * 255 * max_opacity over
\* linspace(0, 1, n), as stored in the uint8 image
alpha_ramp(n, rising, op) ==
    [i \in 1..n |->
        astype_uint8(TimesOpacity(
            Times(IF rising THEN LinspaceTable[n][i]
                  ELSE OneMinus(LinspaceTable[n][i]), 255), op))]

\* the ramps for every length, direction and opacity, computed once
AlphaRampTable ==
    [n \in 1..MaxBar |-> [rising \in BOOLEAN |->
        [op \in 0..(2 ^ OpBits) |-> alpha_ramp(n, rising, op)]]]

Colors == {<<0, 0, 0>>, <<255, 255, 255>>}

\* create_gradient_bar(width, height, direction, color, max_opacity):
\* the RGBA image of the clip returned, pixel[y][x]
create_gradient_bar(width, height, direction, color, op) ==
    LET w == width
        h == height
    IN  IF w <= 0 \/ h <= 0
        THEN [w |-> Max(1, w), h |-> Max(1, h),
              pixel |-> [y \in 1..Max(1, h) |-> [x \in 1..Max(1, w) |->
                            [color |-> <<0, 0, 0>>, alpha |-> 0]]]]
        ELSE IF direction \in {"left", "right"}
        THEN LET alpha_row == AlphaRampTable[w][direction /= "left"][op]
             IN  [w |-> w, h |-> h,
                  pixel |-> [y \in 1..h |-> [x \in 1..w |->
                                [color |-> color, alpha |-> alpha_row[x]]]]]
        ELSE LET alpha_col == AlphaRampTable[h][direction /= "top"][op]
             IN  [w |-> w, h |-> h,
                  pixel |-> [y \in 1..h |-> [x \in 1..w |->
                                [color |-> color, alpha |-> alpha_col[y]]]]]

\* a call create_gradient_bar(width, height, direction, color, max_opacity)
InitGradient ==
    /\ current_time = 0 /\ clips = <<>>
    /\ output_file = [exists |-> FALSE, duration |-> 0]
    /\ calls = NoCalls /\ pipeline = NoPipeline
    /\ \E width \in MinBar..MaxBar, height \in MinBar..MaxBar,
          direction \in TextDirections, color \in Colors,
          op \in 0..(2 ^ OpBits) :
           last = [op |-> "call create_gradient_bar", width |-> width,
                   height |-> height, direction |-> direction,
                   color |-> color, max_opacity |-> op]

CreateGradientBar ==
    /\ last.op = "call create_gradient_bar"
    /\ last' = [op |-> "create_gradient_bar", width |-> last.width,
                height |-> last.height, direction |-> last.direction,
                color |-> last.color, max_opacity |-> last.max_opacity,
                image |-> create_gradient_bar(last.width, last.height,
                                              last.direction, last.color,
                                              last.max_opacity)]
    /\ UNCHANGED <<current_time, clips, output_file, calls, pipeline>>

SpecGradient == InitGradient /\ [][CreateGradientBar]_allvars

(* ------------------- video_assembly.py: the pipeline ------------------- *)

\* effects_duration when the row gives none (0.5 s), in ticks
DefaultEffectsDuration == 1

\* the rows of a config: as many as clips has room for
Rows == 1..(MaxClips \div 3)

\* a row of the config with the files found for it: only_video; audio is
\* the narration file after the audio step (not given: tts off or no
\* title; missing: generate_speech failed); video is the file the row
\* names (the user's video, or the generated one)
SceneRows ==
    [only_video : BOOLEAN, audio : AudioInputs,
     video : {MissingVideo} \cup ExistingVideos]

\* run_content_generation: audio_duration of a row
audio_duration(row) ==
    IF row.audio.given /\ row.audio.exists THEN row.audio.duration ELSE 0

\* run_content_generation: the validation of a user-provided video
\* reaches sys.exit(1)
exits_on_long_audio(row) ==
    /\ row.only_video
    /\ row.video.exists
    /\ audio_duration(row) > 0
    /\ audio_duration(row) > row.video.duration

InitPipeline ==
    /\ Init
    /\ calls = NoCalls
    /\ \E rows \in [Rows -> SceneRows] :
           pipeline = [stage |-> "generation", i |-> 1, rows |-> rows,
                       scenes_added |-> 0]

\* run_content_generation: one pass of the loop over the scenes
GenerateRow ==
    /\ pipeline.stage = "generation"
    /\ pipeline.i \in Rows
    /\ pipeline' =
           IF exits_on_long_audio(pipeline.rows[pipeline.i])
           THEN [pipeline EXCEPT !.stage = "exited"]
           ELSE [pipeline EXCEPT !.i = @ + 1]
    /\ UNCHANGED <<vars, calls>>

\* run_content_generation returns; run_editor constructs its sequencer
StartEditor ==
    /\ pipeline.stage = "generation"
    /\ pipeline.i \notin Rows
    /\ pipeline' = [pipeline EXCEPT !.stage = "editing", !.i = 1]
    /\ UNCHANGED <<vars, calls>>

\* run_editor: audio_path of a row
editor_audio(row) ==
    IF row.audio.given /\ row.audio.exists THEN row.audio ELSE NoAudio

\* run_editor: one pass of the loop over the scenes
EditRow ==
    /\ pipeline.stage = "editing"
    /\ pipeline.i \in Rows
    /\ LET row == pipeline.rows[pipeline.i]
       IN  IF ~row.video.exists
           THEN /\ pipeline' = [pipeline EXCEPT !.i = @ + 1]
                /\ UNCHANGED vars
           ELSE /\ \E title \in Texts, text_direction \in TextDirections :
                       /\ row.audio.given => title /= ""
                       /\ add_scene(row.video, title, "",
                                    DefaultEffectsDuration, text_direction,
                                    editor_audio(row))
                /\ pipeline' = [pipeline EXCEPT !.i = @ + 1,
                                                !.scenes_added = @ + 1]
    /\ UNCHANGED calls

\* run_editor: render if a scene was added
FinishEditor ==
    /\ pipeline.stage = "editing"
    /\ pipeline.i \notin Rows
    /\ IF pipeline.scenes_added > 0 THEN render ELSE UNCHANGED vars
    /\ pipeline' = [pipeline EXCEPT !.stage = "done"]
    /\ UNCHANGED calls

NextPipeline == GenerateRow \/ StartEditor \/ EditRow \/ FinishEditor

SpecPipeline == InitPipeline /\ [][NextPipeline]_allvars

(* --------------------- audio_cleaner.apply_noise_gate ------------------ *)

\* an audio segment is a sequence of pieces [ms, db]: ms milliseconds of
\* sound at db dBFS; the audio given to the gate has one piece per chunk
MaxChunks == 7

\* ranges shorter than this many milliseconds are not silenced
MinSilenceMs == 50

\* dBFS of digital silence (minus infinity)
SilentDb == -1000

\* length of the last chunk when the audio does not end on a chunk boundary
PartialMs == 5

RECURSIVE Duration(_)
\* len(audio_segment), in milliseconds
Duration(seg) ==
    IF seg = <<>> THEN 0 ELSE Head(seg).ms + Duration(Tail(seg))

RECURSIVE Slice(_, _, _)
\* audio_segment[a:b], in milliseconds
Slice(seg, a, b) ==
    IF seg = <<>> THEN <<>>
    ELSE LET h == Head(seg)
             lo == Max(a, 0)
             hi == Min(b, h.ms)
         IN  (IF hi > lo THEN <<[ms |-> hi - lo, db |-> h.db]>> ELSE <<>>)
             \o Slice(Tail(seg), a - h.ms, b - h.ms)

\* chunk.dBFS of a chunk cut from one piece
dBFS(chunk) == IF chunk = <<>> THEN SilentDb ELSE chunk[1].db

\* AudioSegment.silent(duration)
silent(duration) ==
    IF duration > 0 THEN <<[ms |-> duration, db |-> SilentDb]>> ELSE <<>>

RECURSIVE scan(_, _, _, _, _, _)
\* the scanning loop: the maximal runs of chunks below the threshold
scan(audio_segment, threshold_db, chunk_size_ms, i, silence_start, ranges) ==
    IF i >= Duration(audio_segment)
    THEN IF silence_start >= 0
         THEN Append(ranges, <<silence_start,
                               Duration(audio_segment)>>)
         ELSE ranges
    ELSE LET chunk == Slice(audio_segment, i, i + chunk_size_ms)
         IN  IF dBFS(chunk) < threshold_db
             THEN scan(audio_segment, threshold_db, chunk_size_ms,
                       i + chunk_size_ms,
                       IF silence_start < 0 THEN i
                       ELSE silence_start,
                       ranges)
             ELSE scan(audio_segment, threshold_db, chunk_size_ms,
                       i + chunk_size_ms, -1,
                       IF silence_start >= 0
                       THEN Append(ranges, <<silence_start, i>>)
                       ELSE ranges)

ranges_to_silence(audio_segment, threshold_db, chunk_size_ms) ==
    scan(audio_segment, threshold_db, chunk_size_ms, 0, -1, <<>>)

RECURSIVE silence_every_range(_, _)
silence_every_range(cleaned_audio, ranges) ==
    IF ranges = <<>> THEN cleaned_audio
    ELSE LET start == Head(ranges)[1]
             end == Head(ranges)[2]
         IN  silence_every_range(Slice(cleaned_audio, 0, start)
                             \o silent(end - start)
                             \o Slice(cleaned_audio, end,
                                      Duration(cleaned_audio)),
                         Tail(ranges))

RECURSIVE silence(_, _)
\* the replacing loop: ranges shorter than MinSilenceMs are left alone
silence(cleaned_audio, ranges) ==
    IF ranges = <<>> THEN cleaned_audio
    ELSE LET start == Head(ranges)[1]
             end == Head(ranges)[2]
             duration == end - start
         IN  IF duration < MinSilenceMs
             THEN silence(cleaned_audio, Tail(ranges))
             ELSE silence(Slice(cleaned_audio, 0, start)
                              \o silent(duration)
                              \o Slice(cleaned_audio, end,
                                       Duration(cleaned_audio)),
                          Tail(ranges))

\* apply_noise_gate(audio_segment, threshold_db, chunk_size_ms)
apply_noise_gate(audio_segment, threshold_db, chunk_size_ms) ==
    LET ranges == ranges_to_silence(audio_segment, threshold_db,
                                    chunk_size_ms)
    IN  IF ranges = <<>> THEN audio_segment
        ELSE silence(audio_segment, ranges)

\* the audio made of the chunks of the given levels, the last one of
\* tail_ms milliseconds
AudioOf(levels, chunk_size_ms, tail_ms) ==
    [k \in 1..Len(levels) |->
        [ms |-> IF k = Len(levels) THEN tail_ms ELSE chunk_size_ms,
         db |-> levels[k]]]

InitGate ==
    /\ current_time = 0 /\ clips = <<>>
    /\ output_file = [exists |-> FALSE, duration |-> 0]
    /\ calls = NoCalls /\ pipeline = NoPipeline
    /\ \E n \in 0..MaxChunks, chunk_size_ms \in {10, 25},
          threshold_db \in {-35, -32} :
         \E levels \in [1..n -> {-40, -32}],
            tail_ms \in {chunk_size_ms, PartialMs} :
           last = [op |-> "call apply_noise_gate",
                   audio_segment |-> AudioOf(levels, chunk_size_ms, tail_ms),
                   threshold_db |-> threshold_db,
                   chunk_size_ms |-> chunk_size_ms]

ApplyNoiseGate ==
    /\ last.op = "call apply_noise_gate"
    /\ last' = [op |-> "apply_noise_gate",
                audio_segment |-> last.audio_segment,
                threshold_db |-> last.threshold_db,
                chunk_size_ms |-> last.chunk_size_ms,
                cleaned |-> apply_noise_gate(last.audio_segment,
                                             last.threshold_db,
                                             last.chunk_size_ms)]
    /\ UNCHANGED <<current_time, clips, output_file, calls, pipeline>>

SpecGate == InitGate /\ [][ApplyNoiseGate]_allvars

(* ------- communication.download_and_process_latest_spreadsheet --------- *)

\* emails in the inbox, and polls of it
MaxInbox == 3
MaxPolls == 3

\* the loop examines mail_ids[-2:]
RecentWindow == 2

\* msg_header.get("Message-ID", ""): the value when the header is absent
NoMessageId == 0

\* the k-th email received: its Message-ID is k or absent, its From is
\* k, and it carries no attachment, a file that is no spreadsheet, or a
\* spreadsheet of either extension
Emails(k) ==
    [message_id : {NoMessageId, k},
     attachment : {"none", "pdf", "xlsx", "xls"}, sender : {k}]

\* filename.lower().endswith(('.xlsx', '.xls'))
is_spreadsheet(mail) == mail.attachment \in {"xlsx", "xls"}

\* load_processed_ids(): the non-empty lines of the processed log
load_processed_ids(log) == log \ {NoMessageId}

\* save_processed_id(message_id)
save_processed_id(log, message_id) ==
    IF message_id = NoMessageId THEN log ELSE log \cup {message_id}

\* reversed(mail_ids[-2:])
recent_mail_ids(inbox) ==
    LET n == Len(inbox)
        first == Max(1, n - RecentWindow + 1)
    IN  [j \in 1..(n - first + 1) |-> n - j + 1]

RECURSIVE first_unprocessed_spreadsheet(_, _, _)
\* the loop over the recent emails: the first one whose Message-ID is not
\* in processed_ids and that has a spreadsheet attached; 0 when none
first_unprocessed_spreadsheet(inbox, processed_ids, nums) ==
    IF nums = <<>> THEN 0
    ELSE LET mail == inbox[Head(nums)]
         IN  IF mail.message_id \in processed_ids
             THEN first_unprocessed_spreadsheet(inbox, processed_ids,
                                                Tail(nums))
             ELSE IF is_spreadsheet(mail) THEN Head(nums)
             ELSE first_unprocessed_spreadsheet(inbox, processed_ids,
                                                Tail(nums))

NoSender == [found |-> FALSE]

InitMail ==
    /\ Init /\ calls = NoCalls
    /\ pipeline = [stage |-> "mail", inbox |-> <<>>, log |-> {},
                   downloads |-> {}, polls |-> 0, returned |-> <<>>]

\* an email arrives in the inbox
Receive ==
    /\ pipeline.stage = "mail"
    /\ Len(pipeline.inbox) < MaxInbox
    /\ \E mail \in Emails(Len(pipeline.inbox) + 1) :
          /\ pipeline' = [pipeline EXCEPT !.inbox = Append(@, mail),
                                       !.returned = Append(@, 0)]
          /\ last' = [op |-> "receive", mail |-> mail]
    /\ UNCHANGED <<current_time, clips, output_file, calls>>

\* download_and_process_latest_spreadsheet(), with or without an IMAP
\* error before the loop
download_and_process_latest_spreadsheet(connected) ==
    LET processed_ids == load_processed_ids(pipeline.log)
        num == IF connected
               THEN first_unprocessed_spreadsheet(
                        pipeline.inbox, processed_ids,
                        recent_mail_ids(pipeline.inbox))
               ELSE 0
    IN  IF num = 0
        THEN /\ pipeline' = [pipeline EXCEPT !.polls = @ + 1]
             /\ last' = [op |-> "poll", connected |-> connected,
                         log_before |-> pipeline.log,
                         result |-> NoSender]
        ELSE LET mail == pipeline.inbox[num]
             IN  /\ pipeline' =
                        [pipeline EXCEPT
                            !.downloads =
                                @ \cup {[mail |-> num,
                                         ext |-> mail.attachment]},
                            !.log = save_processed_id(@, mail.message_id),
                            !.polls = @ + 1,
                            !.returned[num] = @ + 1]
                 /\ last' = [op |-> "poll", connected |-> connected,
                             log_before |-> pipeline.log,
                             result |-> [found |-> TRUE, mail |-> num,
                                         sender |-> mail.sender]]

Poll ==
    /\ pipeline.stage = "mail"
    /\ pipeline.polls < MaxPolls
    /\ download_and_process_latest_spreadsheet(TRUE)
    /\ UNCHANGED <<current_time, clips, output_file, calls>>

PollFails ==
    /\ pipeline.stage = "mail"
    /\ pipeline.polls < MaxPolls
    /\ download_and_process_latest_spreadsheet(FALSE)
    /\ UNCHANGED <<current_time, clips, output_file, calls>>

SpecMail ==
    /\ InitMail
    /\ [][\/ Receive
        \/ Poll
        \/ PollFails]_allvars

(* --------------------------- main.run_workflow ------------------------- *)

\* polls that return a sender
MaxRuns == 2

\* client_email when no spreadsheet email was found
NoClient == 0

Confirmation == "Confirmation: File Received"
Complete == "Video Generation Complete"
Failed == "Error in Video Generation"

\* the rows a spreadsheet yields once its assets are downloaded: the video
\* missing or of one tick, no narration or one longer than that video
WorkflowRows ==
    [only_video : BOOLEAN,
     audio : {NoAudio,
              [given |-> TRUE, exists |-> TRUE, duration |-> MaxAudioDur]},
     video : {MissingVideo, [exists |-> TRUE, duration |-> 1]}]

\* run_workflow before its loop: no run yet, downloads/ holds no .xlsx and
\* final_story.mp4 does not exist
InitWorkflow ==
    /\ Init /\ calls = NoCalls
    /\ pipeline = [stage |-> "polling", i |-> 1, rows |-> <<>>,
                   scenes_added |-> 0, client |-> NoClient, sent |-> <<>>,
                   run |-> 0, xlsx |-> FALSE]

\* download_and_process_latest_spreadsheet() returns a sender, having
\* written an attachment named *.xlsx or *.xls to downloads/; a poll that
\* returns None sleeps and polls again, leaving everything as it is
PollSender ==
    /\ pipeline.stage = "polling"
    /\ pipeline.run < MaxRuns
    /\ \E ext \in {"xlsx", "xls"} :
          /\ pipeline' = [pipeline EXCEPT !.stage = "received",
                                          !.client = pipeline.run + 1,
                                          !.run = @ + 1,
                                          !.sent = <<>>,
                                          !.xlsx = @ \/ ext = "xlsx"]
          /\ last' = [op |-> "poll", ext |-> ext]
    /\ UNCHANGED <<current_time, clips, output_file, calls>>

\* the confirmation email, then the search for downloads/*.xlsx
Confirm ==
    /\ pipeline.stage = "received"
    /\ pipeline' =
           [pipeline EXCEPT !.sent = Append(@, Confirmation),
                            !.stage = IF pipeline.xlsx THEN "prepare"
                                      ELSE "polling"]
    /\ UNCHANGED <<vars, calls>>

\* prepare_pipeline_config raises, or returns no scene (ValueError), or
\* returns the scenes of the spreadsheet
Prepare ==
    /\ pipeline.stage = "prepare"
    /\ \/ pipeline' = [pipeline EXCEPT !.sent = Append(@, Failed),
                                       !.stage = "polling"]
       \/ \E rows \in [Rows -> WorkflowRows] :
             pipeline' = [pipeline EXCEPT !.stage = "generation",
                                          !.i = 1,
                                          !.rows = rows,
                                          !.scenes_added = 0]
    /\ UNCHANGED <<vars, calls>>

\* after run_editor: the success email if final_story.mp4 exists, else
\* the error email; the sequencer of the run is dropped
SendOutcome ==
    /\ pipeline.stage = "done"
    /\ pipeline.client /= NoClient
    /\ LET subject == IF output_file.exists THEN Complete ELSE Failed
       IN  /\ pipeline' = [pipeline EXCEPT !.sent = Append(@, subject),
                                           !.stage = "polling",
                                           !.rows = <<>>,
                                           !.i = 1,
                                           !.scenes_added = 0]
           /\ last' = [op |-> "outcome", subject |-> subject,
                       attached |-> output_file.exists,
                       scenes_added |-> pipeline.scenes_added]
    /\ current_time' = 0
    /\ clips' = <<>>
    /\ UNCHANGED <<output_file, calls>>

SpecWorkflow ==
    /\ InitWorkflow
    /\ [][\/ PollSender
        \/ Confirm
        \/ Prepare
        \/ GenerateRow
        \/ StartEditor
        \/ EditRow
        \/ FinishEditor
        \/ SendOutcome]_allvars

(* ---------------------- main.prepare_pipeline_config ------------------- *)

\* rows of the spreadsheet
MaxSheetRows == 2

\* the local variable filename before its first assignment
Unbound == 0

\* a row: whether it names an item, which links it carries, its
\* only_video flag, and whether download_asset succeeds on its link
SheetRows ==
    [named : BOOLEAN, video_link : BOOLEAN, image_link : BOOLEAN,
     only_video : BOOLEAN, downloads : BOOLEAN]

\* prepare_pipeline_config: the link chosen for a row, "" when none
download_url(row) ==
    IF row.video_link /\ row.image_link
    THEN IF row.only_video THEN "video_link" ELSE "image_link"
    ELSE IF row.video_link THEN "video_link"
    ELSE IF row.image_link THEN "image_link"
    ELSE ""

InitConfig ==
    /\ Init /\ calls = NoCalls
    /\ \E sheet \in [1..MaxSheetRows -> SheetRows] :
          pipeline = [stage |-> "config", i |-> 1, sheet |-> sheet,
                      filename |-> Unbound, scenes |-> <<>>]

\* prepare_pipeline_config: one pass of the loop over the rows; the file
\* downloaded for row k is named after k
PrepareRow ==
    /\ pipeline.stage = "config"
    /\ pipeline.i \in DOMAIN pipeline.sheet
    /\ LET i == pipeline.i
           row == pipeline.sheet[i]
           url == download_url(row)
           filename == IF url = "" THEN pipeline.filename ELSE i
       IN  pipeline' =
               IF ~row.named
               THEN [pipeline EXCEPT !.i = @ + 1]
               ELSE IF url /= "" /\ ~row.downloads
               THEN \* unpacking None raises TypeError
                    [pipeline EXCEPT !.stage = "raised"]
               ELSE IF filename = Unbound
               THEN \* print(filename) raises UnboundLocalError
                    [pipeline EXCEPT !.stage = "raised"]
               ELSE [pipeline EXCEPT
                        !.i = @ + 1,
                        !.filename = filename,
                        !.scenes = Append(@, [row |-> i,
                                              item_name |-> filename])]
    /\ UNCHANGED <<vars, calls>>

\* prepare_pipeline_config returns its scenes
ReturnConfig ==
    /\ pipeline.stage = "config"
    /\ pipeline.i \notin DOMAIN pipeline.sheet
    /\ pipeline' = [pipeline EXCEPT !.stage = "returned"]
    /\ UNCHANGED <<vars, calls>>

SpecConfig ==
    /\ InitConfig
    /\ [][\/ PrepareRow
        \/ ReturnConfig]_allvars

(* --------------- video_assembly.run_content_generation ----------------- *)

\* durations here are in ticks of 1/TicksPerSecond second
TicksPerSecond == 4
MaxNarrationTicks == 30

\* successive runs of run_content_generation on one config
MaxPasses == 2

\* the duration requested when there is no narration
FallbackSeconds == 5

\* int(x) for a duration x >= 0 of so many ticks: whole seconds
int(ticks) == ticks \div TicksPerSecond

calc_duration_rounded(audio_ticks) ==
    IF audio_ticks > 0
    THEN (audio_ticks + TicksPerSecond - 1) \div TicksPerSecond
    ELSE FallbackSeconds

\* calc_duration = int(audio_duration) + 1 if audio_duration > 0 else 5
calc_duration(audio_ticks) ==
    IF audio_ticks > 0 THEN int(audio_ticks) + 1
    ELSE FallbackSeconds

\* the narration file: absent (0 ticks) or of some length, and whether
\* AudioFileClip measures it or raises
InitDuration ==
    /\ current_time = 0 /\ clips = <<>>
    /\ output_file = [exists |-> FALSE, duration |-> 0]
    /\ calls = NoCalls /\ pipeline = NoPipeline
    /\ \E narration \in 0..MaxNarrationTicks, measured \in BOOLEAN :
          last = [op |-> "call calc_duration", narration |-> narration,
                  measured |-> measured]

\* run_content_generation: audio_duration, then the duration requested
CalcDuration ==
    /\ last.op = "call calc_duration"
    /\ LET measured_ticks ==
               IF last.narration > 0 /\ last.measured
               THEN last.narration ELSE 0
       IN  last' = [op |-> "calc_duration", narration |-> last.narration,
                    measured |-> last.measured,
                    audio_duration |-> measured_ticks,
                    calc_duration |-> calc_duration(measured_ticks)]
    /\ UNCHANGED <<current_time, clips, output_file, calls, pipeline>>

SpecDuration == InitDuration /\ [][CalcDuration]_allvars

\* a scene of the config and whether its source (the image, or the
\* user's video when only_video) exists
ContentScenes ==
    [tts : BOOLEAN, title : Texts, tts_redo : BOOLEAN,
     only_video : BOOLEAN, video_redo : BOOLEAN, source : BOOLEAN]

\* generate_speech writes a narration of 1 or MaxNarrationTicks ticks;
\* the user's video lasts one second

\* the generated files of a scene: audio is the length of its narration
\* file (0: no file), video tells whether its generated video exists
NoFiles == [audio |-> 0, video |-> FALSE]

\* should_tts and title_text
wants_speech(scene) == scene.tts /\ scene.title /= ""

\* the narration file after the redo check
audio_after_redo(scene, files) ==
    IF wants_speech(scene) /\ scene.tts_redo THEN 0 ELSE files.audio

calls_generate_speech_always(scene, files) ==
    wants_speech(scene)

\* generate_speech is called
calls_generate_speech(scene, files) ==
    wants_speech(scene) /\ audio_after_redo(scene, files) = 0

\* the generated video after the redo check
video_after_redo(scene, files) ==
    IF scene.video_redo THEN FALSE ELSE files.video

\* generate_video_single is called
calls_generate_video_single(scene, files) ==
    /\ ~scene.only_video
    /\ scene.source
    /\ ~video_after_redo(scene, files)

InitContent ==
    /\ Init /\ calls = NoCalls
    /\ \E scenes \in [Rows -> ContentScenes] :
          pipeline = [stage |-> "content", pass |-> 1, i |-> 1,
                      scenes |-> scenes,
                      files |-> [k \in Rows |-> NoFiles]]

\* run_content_generation: one pass of the loop over the scenes, for each
\* outcome of the generation calls it makes
ContentScene ==
    /\ pipeline.stage = "content"
    /\ pipeline.i \in Rows
    /\ LET i == pipeline.i
           scene == pipeline.scenes[i]
           files == pipeline.files[i]
           speech == calls_generate_speech(scene, files)
       IN  \E spoken \in {0, 1, MaxNarrationTicks}, generated \in BOOLEAN :
             LET audio == IF speech THEN spoken
                          ELSE audio_after_redo(scene, files)
                 measured_ticks == IF wants_speech(scene) THEN audio ELSE 0
                 exits == /\ scene.only_video /\ scene.source
                          /\ measured_ticks > 0
                          /\ measured_ticks > TicksPerSecond
                 video == calls_generate_video_single(scene, files)
                 after == [audio |-> audio,
                           video |-> IF scene.only_video \/ ~scene.source
                                     THEN files.video
                                     ELSE IF video THEN generated
                                     ELSE video_after_redo(scene, files)]
             IN  /\ speech \/ spoken = 0
                 /\ video \/ ~generated
                 /\ pipeline' =
                        [pipeline EXCEPT
                            !.files[i] = after,
                            !.i = @ + 1,
                            !.stage = IF exits THEN "exited" ELSE @]
                 /\ last' = [op |-> "content", scene |-> scene,
                             before |-> files, after |-> after,
                             pass |-> pipeline.pass,
                             generate_speech |-> speech,
                             generate_video_single |-> video,
                             duration |->
                                 IF video THEN calc_duration(measured_ticks)
                                 ELSE 0]
    /\ UNCHANGED <<current_time, clips, output_file, calls>>

\* run_content_generation returns and is run again on the same config
NextPass ==
    /\ pipeline.stage = "content"
    /\ pipeline.i \notin Rows
    /\ pipeline.pass < MaxPasses
    /\ pipeline' = [pipeline EXCEPT !.pass = @ + 1, !.i = 1]
    /\ UNCHANGED <<vars, calls>>

SpecContent ==
    /\ InitContent
    /\ [][\/ ContentScene
        \/ NextPass]_allvars

(* ------------------------------ claims -------------------------------- *)

\* the freeze-frame layers and the video layers, one of each per scene,
\* in the order the scenes were added
Freezes == SelectSeq(clips, IsFreeze)
Videos == SelectSeq(clips, IsVideo)

RECURSIVE SumDur(_)
SumDur(s) == IF s = <<>> THEN 0 ELSE Head(s).duration + SumDur(Tail(s))

\* the part of scene k's effects_duration that overlaps the timeline before
\* it: the whole of it, unless the cursor was smaller
RECURSIVE AppliedOverlaps(_)
AppliedOverlaps(k) ==
    IF k < 2 THEN 0
    ELSE Min(Freezes[k].duration, LayerEnd(Videos[k - 1]))
         + AppliedOverlaps(k - 1)

\* C1 as stated: the cursor is the sum of (effects_duration + final video
\* duration) over all scenes minus the effects_duration of every scene
\* except the first.
C1_CursorSumFullOverlaps ==
    current_time =
        SumDur(Freezes) + SumDur(Videos)
        - (IF Freezes = <<>> THEN 0 ELSE SumDur(Tail(Freezes)))

\* C1 amended: the cursor is the sum of (effects_duration + final video
\* duration) over all scenes minus, for every scene except the first, the
\* overlap applied to it: min(effects_duration, cursor before the call).
C1_CursorSumAppliedOverlaps ==
    /\ Len(Freezes) = Len(Videos)
    /\ current_time =
           SumDur(Freezes) + SumDur(Videos) - AppliedOverlaps(Len(Freezes))

\* two scenes added, the second with an effects_duration larger than the
\* cursor it found
C1_Witness ==
    /\ Len(Videos) = 2
    /\ Freezes[2].duration > LayerEnd(Videos[1])

\* C2: current_time is 0 at construction; a step changes it only if it is
\* an add_scene that found its video, every such step strictly increases
\* it, and no step decreases it.
C2_CursorMonotonic ==
    /\ current_time = 0
    /\ [][/\ (last'.op = "add_scene" /\ last'.video.exists) =>
                 current_time' > current_time
          /\ ~(last'.op = "add_scene" /\ last'.video.exists) =>
                 current_time' = current_time
          /\ current_time' >= current_time]_vars

\* a second scene was added with a positive overlap
C2_Witness ==
    /\ last.op = "add_scene"
    /\ last.video.exists
    /\ Len(Videos) = 2
    /\ last.effects_duration > 0
    /\ Freezes[2].start < LayerEnd(Videos[1])

\* C3: an add_scene whose video is missing leaves current_time and clips
\* as they were, and a valid add_scene right after skipped calls, with
\* nothing added before, is placed as the first scene: freeze-frame at 0,
\* video at effects_duration, no overlap.
C3_SkipLeavesState ==
    [][/\ (last'.op = "add_scene" /\ ~last'.video.exists) =>
             UNCHANGED <<current_time, clips, output_file>>
       /\ (/\ last.op = "add_scene" /\ ~last.video.exists /\ clips = <<>>
           /\ last'.op = "add_scene" /\ last'.video.exists) =>
             /\ clips'[1] = Layer("freeze", 0, last'.effects_duration)
             /\ clips'[2].start = last'.effects_duration
             /\ current_time' = clips'[2].start + clips'[2].duration]_vars

\* a call was skipped before any scene was added
C3_WitnessFirst ==
    last.op = "add_scene" /\ ~last.video.exists /\ clips = <<>>

\* the last call was an add_scene that found its video file
LastAdded == last.op = "add_scene" /\ last.video.exists

\* the layers the last add_scene appended, by position
LastFreeze == clips[last.clips_before + 1]
LastVideo == clips[last.clips_before + 2]

\* the last add_scene was given an audio file longer than its video
LastLooped ==
    /\ LastAdded
    /\ last.audio.given /\ last.audio.exists
    /\ last.audio.duration > last.video.duration

\* C4: with an audio file of duration a longer than the video's v, the
\* appended video layer lasts exactly a, not ceil(a/v)*v, and the cursor
\* ends at video_start + a.
C4_LoopedVideoLastsAudio ==
    LastLooped =>
        /\ Len(clips) >= last.clips_before + 2
        /\ LastVideo.kind = "video"
        /\ LastVideo.start = LastFreeze.start + last.effects_duration
        /\ LastVideo.duration = last.audio.duration
        /\ current_time = LastVideo.start + last.audio.duration

\* video of 2 ticks, audio of 3: two copies last 4 ticks, trimmed to 3
C4_Witness ==
    /\ LastLooped
    /\ last.video.duration = 2
    /\ last.audio.duration = 3

\* C5: with no audio path, a missing audio file, or an audio file no longer
\* than the video, the appended video layer keeps the video's own duration
\* and the cursor ends at video_start plus that duration.
C5_NativeDurationKept ==
    (LastAdded /\ ~LastLooped) =>
        /\ Len(clips) >= last.clips_before + 2
        /\ LastVideo.kind = "video"
        /\ LastVideo.start = LastFreeze.start + last.effects_duration
        /\ LastVideo.duration = last.video.duration
        /\ current_time = LastVideo.start + last.video.duration

\* an audio file shorter than the video was supplied
C5_Witness ==
    /\ LastAdded
    /\ last.audio.given /\ last.audio.exists
    /\ last.audio.duration < last.video.duration

\* C6: every layer ends at or before the cursor, the most recent video
\* layer ends exactly at the cursor, and the file render writes lasts
\* exactly the cursor value.
C6_LayersEndByCursor ==
    /\ \A i \in 1..Len(clips) : LayerEnd(clips[i]) <= current_time
    /\ Videos /= <<>> => LayerEnd(Videos[Len(Videos)]) = current_time
    /\ (last.op = "render" /\ clips /= <<>>) =>
           /\ output_file.exists
           /\ output_file.duration = current_time

\* two scenes, the second looped to its audio, were rendered
C6_Witness ==
    /\ last.op = "render"
    /\ Len(Videos) = 2
    /\ Videos[2].duration = MaxAudioDur
    /\ output_file.exists

\* C7: render with an empty layer list writes no file and changes neither
\* the cursor nor the layer list, however many add_scene calls were skipped
\* before it.
C7_RenderEmptyNoOutput ==
    [][(last'.op = "render" /\ clips = <<>>) =>
          /\ UNCHANGED <<current_time, clips, output_file>>
          /\ ~output_file'.exists]_vars

\* render was called on a sequencer that holds no layer
C7_Witness == last.op = "render" /\ clips = <<>>

\* C8: a successful add_scene appends freeze-frame and video, and a sidebar
\* after them exactly when the title or the caption is non-empty; a
\* skipped add_scene appends nothing.
C8_LayersPerScene ==
    last.op = "add_scene" =>
        LET n == last.clips_before
        IN  IF ~last.video.exists
            THEN Len(clips) = n
            ELSE IF last.title = "" /\ last.caption = ""
            THEN /\ Len(clips) = n + 2
                 /\ clips[n + 1].kind = "freeze"
                 /\ clips[n + 2].kind = "video"
            ELSE /\ Len(clips) = n + 3
                 /\ clips[n + 1].kind = "freeze"
                 /\ clips[n + 2].kind = "video"
                 /\ clips[n + 3].kind = "sidebar"

\* a scene with a caption and no title was added after a scene without text
C8_Witness ==
    /\ LastAdded
    /\ last.title = "" /\ last.caption /= ""
    /\ last.clips_before = 2

\* C9 as stated: the first scene starts at 0 with no overlap, and every
\* later freeze-frame starts within the previous scene's video window.
C9_IntroWithinPreviousVideo ==
    /\ Freezes /= <<>> =>
           Freezes[1].start = 0 /\ Videos[1].start = Freezes[1].duration
    /\ \A k \in 2..Len(Freezes) :
           /\ Videos[k - 1].start <= Freezes[k].start
           /\ Freezes[k].start <= LayerEnd(Videos[k - 1])

\* C9 amended: the first scene starts at 0 with no overlap; every later
\* freeze-frame starts at or after 0 and at or before the previous cursor,
\* and within the previous video's window whenever its effects_duration
\* is at most the previous video's final duration.
C9_IntroBeforePreviousEnd ==
    /\ Freezes /= <<>> =>
           Freezes[1].start = 0 /\ Videos[1].start = Freezes[1].duration
    /\ \A k \in 2..Len(Freezes) :
           /\ 0 <= Freezes[k].start
           /\ Freezes[k].start <= LayerEnd(Videos[k - 1])
           /\ Freezes[k].duration <= Videos[k - 1].duration =>
                  Videos[k - 1].start <= Freezes[k].start

\* a second scene whose intro plays over the tail of the first one's video
C9_Witness ==
    /\ Len(Freezes) = 2
    /\ Freezes[2].duration > 0
    /\ Videos[1].start < Freezes[2].start
    /\ Freezes[2].start < LayerEnd(Videos[1])

\* C10 as stated: every layer has start >= 0 and duration > 0.
C10_LayersPositive ==
    \A i \in 1..Len(clips) : clips[i].start >= 0 /\ clips[i].duration > 0

\* C10 amended: every layer has start >= 0; video and sidebar layers have
\* duration > 0; a freeze-frame layer lasts its scene's effects_duration,
\* which is 0 when effects_duration is 0.
C10_LayersNonNegative ==
    /\ \A i \in 1..Len(clips) :
           /\ clips[i].start >= 0
           /\ clips[i].kind /= "freeze" => clips[i].duration > 0
           /\ clips[i].kind = "freeze" => clips[i].duration >= 0
    /\ LastAdded => LastFreeze.duration = last.effects_duration

\* a scene added with effects_duration 0 after a scene with a positive one
C10_Witness ==
    /\ LastAdded
    /\ last.effects_duration = 0
    /\ last.clips_before > 0
    /\ clips[1].duration > 0

\* C11: the layer list is append-only: after every step the layers held
\* before are a prefix of the layers held after, each with its start time
\* and duration unchanged; nothing is removed or reordered.
C11_ClipsAppendOnly ==
    [][/\ Len(clips') >= Len(clips)
       /\ SubSeq(clips', 1, Len(clips)) = clips]_vars

\* a second scene was appended after a first one with a sidebar
C11_Witness == LastAdded /\ last.clips_before = 3

\* C12: render changes neither current_time nor clips, and an add_scene
\* called after a render is placed from the cursor the render found: its
\* freeze-frame starts at max(0, cursor - effects_duration) (0 for a first
\* scene), as without the render.
C12_RenderLeavesSequencer ==
    [][/\ last'.op = "render" => UNCHANGED <<current_time, clips>>
       /\ (last.op = "render" /\ last'.op = "add_scene" /\ last'.video.exists)
             =>
             /\ last'.time_before = current_time
             /\ last'.clips_before = Len(clips)
             /\ clips'[Len(clips) + 1].start =
                    IF current_time = 0 THEN 0
                    ELSE Max(0, current_time - last'.effects_duration)
             /\ SubSeq(clips', 1, Len(clips)) = clips]_vars

\* a scene was added after a render had written the file
C12_Witness ==
    /\ LastAdded
    /\ output_file.exists
    /\ output_file.duration = last.time_before
    /\ last.effects_duration > 0

\* the rows whose narration is longer than their video
LongAudioRows ==
    {i \in Rows : /\ pipeline.rows[i].video.exists
                  /\ audio_duration(pipeline.rows[i])
                         > pipeline.rows[i].video.duration}

\* C13: a narration longer than its video never stops the pipeline:
\* generation does not exit, and when the run is done every row with a
\* video file has its video layer, a row with a longer narration lasting
\* as long as the narration.
C13_LongAudioNotFatal ==
    /\ pipeline.stage /= "exited"
    /\ pipeline.stage = "done" =>
           /\ Len(Videos) =
                  Cardinality({i \in Rows : pipeline.rows[i].video.exists})
           /\ \A i \in LongAudioRows :
                  \E k \in 1..Len(Videos) :
                      Videos[k].duration = audio_duration(pipeline.rows[i])

\* a text whose rasterization fails
FailsToRender(text) == text \in {ZeroSizeText, UnrenderableText}

\* the blocks the sidebar has when failing texts are left out
RenderedBlocks(title, caption) ==
    <<"bg">> \o (IF title = "T" THEN <<"title">> ELSE <<>>)
             \o (IF caption = "T" THEN <<"caption">> ELSE <<>>)

\* C14: when the title or the caption of a scene fails to rasterize,
\* the sidebar is built from the gradient bar and the blocks that did
\* render, and add_scene appends the freeze-frame, the video and the
\* sidebar, the sidebar timed as the video, and moves the cursor to the
\* end of the video.
C14_TextFailureTolerated ==
    (LastAdded /\ (FailsToRender(last.title) \/ FailsToRender(last.caption)))
       =>
       /\ last.sidebar = RenderedBlocks(last.title, last.caption)
       /\ Len(clips) = last.clips_before + 3
       /\ LastFreeze.kind = "freeze"
       /\ LastVideo.kind = "video"
       /\ clips[Len(clips)].kind = "sidebar"
       /\ clips[Len(clips)].start = LastVideo.start
       /\ clips[Len(clips)].duration = LastVideo.duration
       /\ LastFreeze.start =
              IF last.time_before = 0 THEN 0
              ELSE Max(0, last.time_before - last.effects_duration)
       /\ LastVideo.start = LastFreeze.start + last.effects_duration
       /\ current_time = LastVideo.start + last.video.duration

C14_Witness ==
    /\ LastAdded
    /\ last.title = UnrenderableText
    /\ last.caption = ZeroSizeText
    /\ last.time_before > 0

\* both calls have returned
CallsDone == calls /= NoCalls /\ \A i \in DOMAIN calls : calls[i].pc = "done"

\* the sequencer after the call c runs alone from the state st
AfterCall(st, c) ==
    [current_time |-> new_current_time(st.current_time, c.effects_duration,
                                       c.video, NoAudio),
     clips |-> st.clips
                 \o <<intro_bg(st.current_time, c.effects_duration)>>
                 \o <<video_layer(st.current_time, c.effects_duration,
                                  c.video, NoAudio)>>]

\* the sequencer when the calls were made
BeforeCalls ==
    [current_time |-> last.time_before,
     clips |-> SubSeq(clips, 1, last.clips_before)]

\* the two sequential outcomes
SequentialOutcomes ==
    {AfterCall(AfterCall(BeforeCalls, calls[1]), calls[2]),
     AfterCall(AfterCall(BeforeCalls, calls[2]), calls[1])}

Outcome == [current_time |-> current_time, clips |-> clips]

\* C15: two add_scene calls that run one after another leave the
\* sequencer as one of the two sequential orders does; a call that read
\* the cursor before the other call wrote it, and writes after it, places
\* its layers from the cursor it read and writes the cursor it would have
\* written alone, so the other call's advance is lost.
C15_InterleavedCallsLoseUpdate ==
    CallsDone =>
       /\ (\A i \in DOMAIN calls : ~calls[i].stale)
              => Outcome \in SequentialOutcomes
       /\ \A i \in DOMAIN calls :
              (calls[i].stale /\ calls[i].cursor_read = last.time_before)
                 =>
                 /\ calls[i].scene_start_time =
                        scene_start_time(last.time_before,
                                         calls[i].effects_duration)
                 /\ current_time =
                        new_current_time(last.time_before,
                                         calls[i].effects_duration,
                                         calls[i].video, NoAudio)

\* the calls interleaved, and the cursor and the start times of the
\* layers are those of neither sequential order
C15_Witness ==
    /\ CallsDone
    /\ \E i \in DOMAIN calls : calls[i].stale
    /\ \A o \in SequentialOutcomes :
           /\ o.current_time /= current_time
           /\ {o.clips[k].start : k \in DOMAIN o.clips}
                  /= {clips[k].start : k \in DOMAIN clips}

\* the timing of a scene as a function of the cursor before it, the
\* effects duration, the video and the audio
TimingStart(ct, effects_duration) ==
    IF ct = 0 THEN 0 ELSE Max(0, ct - effects_duration)

TimingDuration(video, audio) ==
    IF audio.given /\ audio.exists /\ audio.duration > video.duration
    THEN audio.duration ELSE video.duration

\* C16: the start times and durations of the layers a scene appends
\* and the cursor after it are fixed by the cursor before the scene, its
\* effects duration, its video and its audio: whatever the text
\* direction, the title and the caption, the freeze-frame, the video, the
\* sidebar if there is one, and the cursor have these same values.
C16_TimingIgnoresText ==
    LastAdded =>
       LET S == TimingStart(last.time_before, last.effects_duration)
           D == TimingDuration(last.video, last.audio)
       IN  /\ LastFreeze.start = S
           /\ LastFreeze.duration = last.effects_duration
           /\ LastVideo.start = S + last.effects_duration
           /\ LastVideo.duration = D
           /\ \A k \in (last.clips_before + 3)..Len(clips) :
                  /\ clips[k].start = S + last.effects_duration
                  /\ clips[k].duration = D
           /\ current_time = S + last.effects_duration + D

C16_Witness ==
    /\ LastAdded
    /\ last.title = "" /\ last.caption = "T"
    /\ last.time_before > 0
    /\ last.audio.given /\ last.audio.exists
    /\ last.audio.duration > last.video.duration
    /\ Len(clips) = last.clips_before + 3

\* C17: for a clip and a target of positive width and height,
\* resize_and_crop scales the clip by target_h / h when the clip is wider
\* than the target ratio and by target_w / w otherwise, each side
\* truncated to an integer, the scaled clip covers the target, and the
\* clip returned is exactly target_w by target_h.
C17_FitsTargetExactly ==
    (last.op = "resize_and_crop" /\ last.target_h > 0) =>
       LET wider == last.w * last.target_h > last.target_w * last.h
           scaled == last.fitted.new_clip
       IN  /\ wider => /\ scaled.h = last.target_h
                       /\ scaled.w * last.h <= last.w * last.target_h
                       /\ (scaled.w + 1) * last.h > last.w * last.target_h
                       /\ scaled.w >= last.target_w
           /\ ~wider => /\ scaled.w = last.target_w
                        /\ scaled.h * last.w <= last.h * last.target_w
                        /\ (scaled.h + 1) * last.w > last.h * last.target_w
                        /\ scaled.h >= last.target_h
           /\ last.fitted.result = [w |-> last.target_w, h |-> last.target_h]

\* a wide clip scaled to an odd excess of width and cropped
C17_Witness ==
    /\ last.op = "resize_and_crop"
    /\ last.w = 3 /\ last.h = 2 /\ last.target_w = 2 /\ last.target_h = 2
    /\ last.fitted.new_clip = [w |-> 3, h |-> 2]
    /\ last.fitted.result = [w |-> 2, h |-> 2]

\* the character budget of a line
Budget(size_w, fontsize) ==
    Max(1, (2 * (IF size_w = 0 THEN DefaultWidthPx ELSE size_w)) \div fontsize)

\* the lines of a text: its pieces between line breaks
RECURSIVE LinesOf(_, _)
LinesOf(text, line) ==
    IF text = <<>> THEN <<line>>
    ELSE IF Head(text) = "\n" THEN <<line>> \o LinesOf(Tail(text), <<>>)
    ELSE LinesOf(Tail(text), Append(line, Head(text)))

\* the wrapped text: the text handed to the rasterizer without its
\* trailing line break
WrappedLines == LinesOf(SubSeq(last.final_text, 1, Len(last.final_text) - 1), <<>>)

\* the text without its leading and trailing blanks
RECURSIVE Strip(_)
Strip(text) ==
    IF text = <<>> THEN <<>>
    ELSE IF Head(text) = " " THEN Strip(Tail(text))
    ELSE IF text[Len(text)] = " " THEN Strip(SubSeq(text, 1, Len(text) - 1))
    ELSE text

\* C18 as stated: a text within the budget is handed on unchanged with
\* a trailing line break; a text longer than the budget is wrapped to at
\* least two lines, none longer than the budget plus one.
C18_LongTextWrapsToTwoLines ==
    last.op = "create_text_clip" =>
       LET budget == Budget(last.size_w, last.fontsize)
       IN  /\ Len(last.text) <= budget =>
                  last.final_text = last.text \o <<"\n">>
           /\ Len(last.text) > budget =>
                  /\ Len(WrappedLines) >= 2
                  /\ \A k \in DOMAIN WrappedLines :
                         Len(WrappedLines[k]) <= budget + 1

\* C18: a text within the budget is handed on unchanged with a
\* trailing line break; a text longer than the budget is wrapped to lines
\* none of which is longer than the budget, and to at least two lines
\* when it is still longer than the budget without its leading and
\* trailing blanks.
C18_LongTextWrapsWithinBudget ==
    last.op = "create_text_clip" =>
       LET budget == Budget(last.size_w, last.fontsize)
       IN  /\ Len(last.text) <= budget =>
                  last.final_text = last.text \o <<"\n">>
           /\ Len(last.text) > budget =>
                  /\ Len(Strip(last.text)) > budget => Len(WrappedLines) >= 2
                  /\ \A k \in DOMAIN WrappedLines :
                         Len(WrappedLines[k]) <= budget

\* a text with a blank wrapped at a word boundary
C18_Witness ==
    /\ last.op = "create_text_clip"
    /\ last.text = <<"x", " ", "x", "x">>
    /\ Budget(last.size_w, last.fontsize) = 2
    /\ WrappedLines = << <<"x">>, <<"x", "x">> >>

\* the call of create_gradient_bar made, with a size that is not
\* degenerate
GradientMade ==
    /\ last.op = "create_gradient_bar"
    /\ last.width >= 1 /\ last.height >= 1

\* the alpha of the first row along x, and of the first column along y
FirstRow == [x \in 1..last.image.w |-> last.image.pixel[1][x].alpha]
FirstColumn == [y \in 1..last.image.h |-> last.image.pixel[y][1].alpha]

\* every row is the first row; every column is the first column
RowsAlike ==
    \A y \in 1..last.image.h, x \in 1..last.image.w :
        last.image.pixel[y][x].alpha = FirstRow[x]
ColumnsAlike ==
    \A y \in 1..last.image.h, x \in 1..last.image.w :
        last.image.pixel[y][x].alpha = FirstColumn[y]

ColorConstant ==
    \A y \in 1..last.image.h, x \in 1..last.image.w :
        last.image.pixel[y][x].color = last.color

\* floor(max_opacity * 255)
FullAlpha == (last.max_opacity * 255) \div 2 ^ OpBits

\* a ramp that falls from FullAlpha to 0
Falls(ramp) ==
    /\ \A i \in DOMAIN ramp, j \in DOMAIN ramp : i < j => ramp[i] >= ramp[j]
    /\ ramp[1] = FullAlpha /\ ramp[Len(ramp)] = 0

\* the ramp of a bar n wide made with the given direction and the same
\* opacity
RampOf(direction, n) ==
    [x \in 1..n |->
        create_gradient_bar(n, 1, direction, last.color,
                            last.max_opacity).pixel[1][x].alpha]

Mirror(ramp) == [i \in 1..Len(ramp) |-> ramp[Len(ramp) + 1 - i]]

\* C19: 'left' falls along x from floor(max_opacity * 255)
\* to 0, every row alike, the colour constant; 'right' is the mirror
\* image of 'left'; 'top' and 'bottom' are the same two ramps along y.
C19_RightMirrorsLeft ==
    GradientMade =>
       /\ ColorConstant
       /\ (last.direction = "left" /\ last.width >= 2) =>
              RowsAlike /\ Falls(FirstRow)
       /\ (last.direction = "right" /\ last.width >= 2) =>
              RowsAlike /\ FirstRow = Mirror(RampOf("left", last.width))
       /\ (last.direction = "top" /\ last.height >= 2) =>
              ColumnsAlike /\ FirstColumn = RampOf("left", last.height)
       /\ (last.direction = "bottom" /\ last.height >= 2) =>
              /\ ColumnsAlike
              /\ FirstColumn = Mirror(RampOf("left", last.height))

\* C20: create_gradient_bar given a width or a height of 0 or less
\* returns a fully transparent image of exactly one pixel.
C20_DegenerateIsOneByOne ==
    (last.op = "create_gradient_bar" /\ (last.width <= 0 \/ last.height <= 0))
       =>
       /\ last.image.w = 1 /\ last.image.h = 1
       /\ \A y \in 1..last.image.h, x \in 1..last.image.w :
              last.image.pixel[y][x].alpha = 0

\* the sidebar layer the last add_scene appended, when it appended one
LastHasSidebar == LastAdded /\ Len(clips) = last.clips_before + 3
LastSidebar == clips[last.clips_before + 3]

\* C22: a sidebar layer appended by add_scene starts at the start of the
\* scene's video layer and lasts as long as that layer finally lasts (the
\* audio duration when the video was looped), so both end together.
C22_SidebarSpansVideo ==
    LastHasSidebar =>
        /\ LastSidebar.kind = "sidebar"
        /\ LastVideo.kind = "video"
        /\ LastSidebar.start = LastVideo.start
        /\ LastSidebar.duration = LastVideo.duration
        /\ LayerEnd(LastSidebar) = LayerEnd(LastVideo)
        /\ LastLooped => LastSidebar.duration = last.audio.duration

\* a looped second scene with a title: the sidebar starts after the
\* transition and lasts the audio's duration
C22_Witness ==
    /\ LastHasSidebar
    /\ LastLooped
    /\ last.title = "T"
    /\ last.time_before > 0
    /\ last.effects_duration > 0
    /\ LastSidebar.start > LastFreeze.start
    /\ LastSidebar.duration > last.video.duration

\* the last add_scene was given an audio file no longer than its video
LastShortAudio ==
    /\ LastAdded
    /\ last.audio.given /\ last.audio.exists
    /\ last.audio.duration <= last.video.duration

\* C23 as stated: with an audio file no longer than the video, the video
\* layer keeps the sound track embedded in the video file.
C23_EmbeddedKeptUnlessLooped ==
    LastShortAudio => last.sound = "embedded"

\* C23: whenever an audio file is given and exists, it becomes the sound
\* track of the video layer, looped or not, and an audio no longer than
\* the video leaves the video at its native duration; the embedded track
\* is kept exactly when no audio file is given or the file is missing.
C23_SuppliedAudioIsSoundTrack ==
    LastAdded =>
        /\ last.sound = "audio" <=> (last.audio.given /\ last.audio.exists)
        /\ last.sound = "embedded"
               <=> ~(last.audio.given /\ last.audio.exists)
        /\ LastShortAudio => LastVideo.duration = last.video.duration

\* an audio shorter than the video: native duration, sound from the audio
C23_Witness ==
    /\ LastShortAudio
    /\ last.audio.duration < last.video.duration
    /\ last.sound = "audio"
    /\ LastVideo.duration = last.video.duration

\* the gate has been applied
Gated == last.op = "apply_noise_gate"

\* the starts of the chunks the gate scans
ChunkStarts ==
    {i \in 0..(Duration(last.audio_segment) - 1) :
        i % last.chunk_size_ms = 0}

InChunk(i) == Slice(last.audio_segment, i, i + last.chunk_size_ms)
OutChunk(i) == Slice(last.cleaned, i, i + last.chunk_size_ms)

Quiet(i) == dBFS(InChunk(i)) < last.threshold_db
Muted(i) ==
    /\ Duration(OutChunk(i)) = Duration(InChunk(i))
    /\ \A k \in DOMAIN OutChunk(i) : OutChunk(i)[k].db = SilentDb

\* the chunk at i lies in a run of quiet chunks from a to b (b the end of
\* the audio or the start of a chunk that is not quiet)
RunAround(i) ==
    LET ends == {Duration(last.audio_segment)}
                  \cup {j \in ChunkStarts : j > i /\ ~Quiet(j)}
        b == CHOOSE e \in ends : \A f \in ends : e <= f
        starts == {j \in ChunkStarts :
                     /\ j <= i
                     /\ \A k \in ChunkStarts : (j <= k /\ k <= i) => Quiet(k)}
        a == CHOOSE s \in starts : \A t \in starts : s <= t
    IN  <<a, b>>

RunLength(i) == RunAround(i)[2] - RunAround(i)[1]

Polled == last.op = "poll"

\* the emails with a spreadsheet attached whose Message-ID was not in the
\* processed log when the last poll began
UnprocessedBefore ==
    {k \in DOMAIN pipeline.inbox :
        /\ is_spreadsheet(pipeline.inbox[k])
        /\ pipeline.inbox[k].message_id
               \notin load_processed_ids(last.log_before)}

\* C21: whenever the inbox holds an email with a spreadsheet attached
\* whose Message-ID is not in the processed log, a poll that meets no
\* connection error downloads the attachment of the most recent such
\* email and returns its sender; it returns None only when there is none.
C21_LatestUnprocessedReturned ==
    (Polled /\ last.connected) =>
        IF UnprocessedBefore = {}
        THEN ~last.result.found
        ELSE /\ last.result.found
             /\ \A k \in UnprocessedBefore : k <= last.result.mail
             /\ last.result.mail \in UnprocessedBefore
             /\ last.result.sender
                    = pipeline.inbox[last.result.mail].sender
             /\ \E f \in pipeline.downloads : f.mail = last.result.mail

\* C25: across successive polls, no email makes
\* download_and_process_latest_spreadsheet return its sender more than
\* once: its Message-ID is in the processed log from the poll that
\* returned it on, and every later poll skips it.
C25_ReturnedAtMostOnce ==
    \A k \in DOMAIN pipeline.inbox :
        /\ pipeline.returned[k] <= 1
        /\ (/\ pipeline.returned[k] = 1
            /\ pipeline.inbox[k].message_id /= NoMessageId)
               => pipeline.inbox[k].message_id
                      \in load_processed_ids(pipeline.log)

\* a run of the workflow has ended and the loop is about to poll again
RunEnded ==
    /\ "client" \in DOMAIN pipeline
    /\ pipeline.stage = "polling"
    /\ pipeline.client /= NoClient

\* C26: every poll that returns a sender is followed, before the next
\* poll, by the confirmation email and then exactly one outcome email,
\* and the loop goes on polling: no failure in asset download, content
\* generation or editing ends the loop or skips the outcome email.
C26_OutcomeAfterEveryRun ==
    /\ pipeline.stage /= "exited"
    /\ RunEnded =>
          pipeline.sent \in {<<Confirmation, Complete>>,
                             <<Confirmation, Failed>>}

\* C27: the success email is sent only after a run whose run_editor added
\* at least one scene and rendered final_story.mp4; a run that added no
\* scene ends with the error email, whatever earlier runs left on disk.
C27_CompleteOnlyAfterRender ==
    (last.op = "outcome" /\ last.subject = Complete)
        => last.scenes_added > 0

\* C28: every scene built by prepare_pipeline_config carries as item_name
\* the name of the file downloaded for its own row, and a row that has
\* neither a video link nor an image link yields no scene carrying the
\* filename of an earlier row.
C28_SceneNamesOwnFile ==
    pipeline.stage \in {"config", "returned", "raised"} =>
        \A k \in DOMAIN pipeline.scenes :
            LET scene == pipeline.scenes[k]
                row == pipeline.sheet[scene.row]
            IN  /\ scene.item_name = scene.row
                /\ download_url(row) /= ""

\* the last step was a pass of run_content_generation over one scene
Generated == last.op = "content"

\* every asset the scene asks for exists: its narration when it has tts
\* and a title, its generated video when it is not only_video
AssetsPresent(scene, files) ==
    /\ wants_speech(scene) => files.audio > 0
    /\ ~scene.only_video => files.video

\* C29: generate_speech is called for a scene only when tts is true, the
\* title is non-empty and the narration file is absent after the redo
\* check (it was absent, or tts_redo removed it); generate_video_single
\* only when the generated video is absent after the redo check; so with
\* both redo flags false and its assets present a scene causes no
\* generation call and its files are unchanged.
C29_GenerationOnlyWhenAbsent ==
    Generated =>
        /\ last.generate_speech
              <=> (/\ last.scene.tts /\ last.scene.title /= ""
                   /\ (last.before.audio = 0 \/ last.scene.tts_redo))
        /\ last.generate_video_single
              => (~last.before.video \/ last.scene.video_redo)
        /\ last.generate_video_single
              => (~last.scene.only_video /\ last.scene.source)
        /\ (/\ ~last.scene.tts_redo /\ ~last.scene.video_redo
            /\ AssetsPresent(last.scene, last.before))
              => /\ ~last.generate_speech
                 /\ ~last.generate_video_single
                 /\ last.after = last.before

\* a second pass over a narrated scene with a generated video, no redo
\* flag: both files are found and nothing is generated
C29_Witness ==
    /\ Generated
    /\ last.pass = 2
    /\ last.scene.tts /\ last.scene.title = "T" /\ ~last.scene.only_video
    /\ ~last.scene.tts_redo /\ ~last.scene.video_redo
    /\ last.before.audio > 0 /\ last.before.video
    /\ ~last.generate_speech /\ ~last.generate_video_single
    /\ last.after = last.before

\* calc_duration has been computed
Calculated == last.op = "calc_duration"

\* C30: the duration requested for a generated video is
\* int(audio_duration) + 1 seconds when a narration of duration > 0 was
\* measured, which is more than the narration lasts and at most one
\* second more, and is 5 seconds when there is no narration.
C30_RequestedDuration ==
    Calculated =>
        IF last.audio_duration > 0
        THEN /\ last.narration > 0 /\ last.measured
             /\ last.calc_duration = int(last.narration) + 1
             /\ last.calc_duration * TicksPerSecond > last.narration
             /\ last.calc_duration * TicksPerSecond
                    <= last.narration + TicksPerSecond
        ELSE last.calc_duration = FallbackSeconds

\* a narration of a whole number of seconds: one full second is added
C30_Witness ==
    /\ Calculated
    /\ last.audio_duration = 2 * TicksPerSecond
    /\ last.calc_duration = 3

====
